---- MODULE Spec2Model ----
(***************************************************************************)
(* A model of backend/btrixcloud/storages.py:                              *)
(*   - do_upload_multipart, the multipart upload coroutine, one copy per   *)
(*     invocation, against a store that answers or fails every call;       *)
(*   - _sync_get_logs, the log merge over the log entries of WACZ files;   *)
(*   - _sync_dl, the streamed zip of stored files and their manifest.      *)
(***************************************************************************)
EXTENDS Integers, Sequences, FiniteSets, TLC

\* ------------------------------------------------------------------ bounds
\* min_size is drawn from 0..MaxMinSize
MaxMinSize == 2
\* the input stream of an upload carries 0..MaxTotal bytes
MaxTotal == 7
\* the store refuses part numbers above MaxParts (it ends a loop that never breaks)
MaxParts == 5
\* the input stream delivers at most MaxEmptyChunks zero-length chunks
MaxEmptyChunks == 1
\* two interleaved invocations each read a stream of 0..MaxTotalEach bytes
MaxTotalEach == 1
\* wacz_files holds NumWacz files
NumWacz == 2
\* a WACZ holds at most MaxLogFiles log entries
MaxLogFiles == 2
\* the log entries of one merge hold at most MaxLines lines in all
MaxLines == 3
\* of which at most MaxOddLines are not plain records (a record with a
\* two-byte character, a line that is no JSON, an empty line)
MaxOddLines == 1
\* all_files holds at most MaxFiles files
MaxFiles == 2
\* a stored object holds, and a file record declares, at most MaxFileSize bytes
MaxFileSize == 3
\* CHUNK_SIZE, in the units of the model: a zip header counts as one byte
CHUNK_SIZE == 2

\* the invocations of do_upload_multipart of the model
Invocations == {1, 2}

VARIABLES
    \* ---- do_upload_multipart, per invocation
    pc,           \* the await the coroutine is suspended in, "idle" or "done"
    min_size,     \* the min_size argument
    file_,        \* the bytes the input stream has not delivered yet
    empties,      \* zero-length chunks the stream has delivered
    delivered,    \* the chunks the stream delivered, in order
    bufs,         \* get_next_chunk: bufs
    total,        \* get_next_chunk: total
    chunk,        \* the buffer get_next_chunk returned
    upload_id,    \* mup_resp["UploadId"], 0 before create answers
    parts,        \* the recorded {"PartNumber", "ETag"} list
    part_number,  \* the next part number
    exc,          \* the exception the except clause caught, "none" if none
    result,       \* "none", "True", "False" or "raised"
    raised,       \* the exception that left the coroutine and its __context__
    printed,      \* what the coroutine printed
    \* ---- the object store
    calls,        \* every multipart call issued, in order
    next_id,      \* the next UploadId the store hands out
    next_etag,    \* the next ETag the store hands out
    \* ---- _sync_get_logs
    lpc,               \* where _sync_get_logs and the generator it returns stand
    log_levels,        \* the log_levels argument
    contexts,          \* the contexts argument
    wacz,              \* index in wacz_files of the WACZ being read
    entry_records,     \* per WACZ, per log entry opened: the records its lines hold
    lines_used,        \* the lines of the log entries opened so far
    odd_used,          \* those of them that are not plain records
    malformed,         \* those of them that are not empty and not JSON
    log_files,         \* log_files of the WACZ being read
    entry,             \* index in log_files of the entry being read
    log_stream,        \* the bytes log_stream has not delivered yet
    last_line,         \* stream_log_bytes_as_line_dicts: last_line
    wacz_log_streams,  \* wacz_log_streams of the WACZ being read
    log_generators,    \* log_generators
    heap_iter,         \* the state of the heapq.merge generator
    out,               \* the byte lines the returned generator has yielded
    \* ---- _sync_dl
    zpc,               \* where _sync_dl and the generator it returns stand
    all_files,         \* the all_files argument
    stored,            \* per file of all_files, the bytes of its object in the store
    datapackage,       \* the encoded manifest
    member,            \* index in member_files() of the member being written
    response,          \* the bytes response["Body"] has not delivered yet
    buffered,          \* the chunks of the member read so far
    pending,           \* zip bytes produced and not yet yielded as a chunk
    zout,              \* the chunks the zip generator has yielded
    central_directory, \* the central directory entries recorded so far
    zraised,           \* the exception that left the zip generator, "none" if none
    waiting,           \* the consumer is inside a next() on the zip generator
    pulls,             \* the next() calls the consumer has made
    gets               \* the names get_object was called for, in order

uploadVars == <<pc, min_size, file_, empties, delivered, bufs, total, chunk,
                upload_id, parts, part_number, exc, result, raised, printed,
                calls, next_id, next_etag>>

logVars == <<lpc, log_levels, contexts, wacz, entry_records, lines_used, odd_used,
             malformed,
             log_files, entry,
             log_stream, last_line, wacz_log_streams, log_generators, heap_iter, out>>

zipVars == <<zpc, all_files, stored, datapackage, member, response, buffered, pending,
             zout, central_directory, zraised, waiting, pulls, gets>>

vars == <<uploadVars, logVars, zipVars>>

\* ------------------------------------------------------------------ helpers
RECURSIVE Join(_)
\* b"".join(bufs)
Join(bs) == IF bs = <<>> THEN <<>> ELSE Head(bs) \o Join(Tail(bs))

\* the bytes of a stream of n bytes: byte k is the k-th byte of the input
Bytes(n) == [k \in 1..n |-> k]

NoExc == [exc |-> "none", context |-> "none"]

\* one multipart call as the store sees it, with the ETag it answers to upload_part
Call(i, op, id, pn, body, ps, outcome) ==
    [inv |-> i, op |-> op, UploadId |-> id, PartNumber |-> pn, Body |-> body,
     Parts |-> ps, outcome |-> outcome,
     ETag |-> IF op = "upload_part" /\ outcome = "ok" THEN next_etag ELSE 0]

\* one printed line: the text, and the exception, part number, length and
\* upload id it formats
Line(msg, e, pn, len, id) == [msg |-> msg, exc |-> e, pn |-> pn, len |-> len, id |-> id]

\* (mutant) get_next_chunk returns the last chunk it read and not the others
GetNextChunkResultLast(bs) == IF bs = <<>> THEN <<>> ELSE bs[Len(bs)]

\* get_next_chunk's return value
GetNextChunkResult(bs) == IF Len(bs) = 1 THEN bs[1] ELSE Join(bs)

\* ------------------------------------------------------------------ do_upload_multipart
\* (mutant) upload_id is one variable that all invocations write and read
SetUploadIdShared(i, id) == [j \in Invocations |-> id]

\* upload_id = mup_resp["UploadId"], a local of invocation i
SetUploadId(i, id) == [upload_id EXCEPT ![i] = id]

\* create_multipart_upload answers: upload_id, parts = [], part_number = 1,
\* and the loop enters get_next_chunk
CreateOk(i) ==
    /\ pc[i] = "create"
    /\ calls' = Append(calls, Call(i, "create", next_id, 0, <<>>, <<>>, "ok"))
    /\ upload_id' = SetUploadId(i, next_id)
    /\ next_id' = next_id + 1
    /\ parts' = [parts EXCEPT ![i] = <<>>]
    /\ part_number' = [part_number EXCEPT ![i] = 1]
    /\ bufs' = [bufs EXCEPT ![i] = <<>>]
    /\ total' = [total EXCEPT ![i] = 0]
    /\ pc' = [pc EXCEPT ![i] = "read"]
    /\ UNCHANGED <<min_size, file_, empties, delivered, chunk, exc, result,
                   raised, printed, next_etag>>
    /\ UNCHANGED <<logVars, zipVars>>

\* (mutant) a create error is handled like an error inside the try
CreateFailThenAbort(i) ==
    /\ pc[i] = "create"
    /\ calls' = Append(calls, Call(i, "create", 0, 0, <<>>, <<>>, "error"))
    /\ exc' = [exc EXCEPT ![i] = "create_error"]
    /\ pc' = [pc EXCEPT ![i] = "abort"]
    /\ UNCHANGED <<min_size, file_, empties, delivered, bufs, total, chunk,
                   upload_id, parts, part_number, result, raised, printed,
                   next_id, next_etag>>
    /\ UNCHANGED <<logVars, zipVars>>

\* create_multipart_upload raises: outside the try, the error leaves the coroutine
CreateFail(i) ==
    /\ pc[i] = "create"
    /\ calls' = Append(calls, Call(i, "create", 0, 0, <<>>, <<>>, "error"))
    /\ result' = [result EXCEPT ![i] = "raised"]
    /\ raised' = [raised EXCEPT ![i] = [exc |-> "create_error", context |-> "none"]]
    /\ pc' = [pc EXCEPT ![i] = "done"]
    /\ UNCHANGED <<min_size, file_, empties, delivered, bufs, total, chunk,
                   upload_id, parts, part_number, exc, printed, next_id, next_etag>>
    /\ UNCHANGED <<logVars, zipVars>>

\* (mutant) get_next_chunk returns after every chunk, whatever its total
AfterChunkNoMinimum(i, c) ==
    LET nbufs == Append(bufs[i], c)
    IN  /\ bufs' = [bufs EXCEPT ![i] = nbufs]
        /\ total' = [total EXCEPT ![i] = total[i] + Len(c)]
        /\ chunk' = [chunk EXCEPT ![i] = GetNextChunkResult(nbufs)]
        /\ pc' = [pc EXCEPT ![i] = "upload_part"]

\* the next state of get_next_chunk after the stream delivered chunk c
AfterChunk(i, c) ==
    LET nbufs == Append(bufs[i], c)
        ntotal == total[i] + Len(c)
    IN  /\ bufs' = [bufs EXCEPT ![i] = nbufs]
        /\ total' = [total EXCEPT ![i] = ntotal]
        /\ IF ntotal >= min_size[i]
           THEN /\ chunk' = [chunk EXCEPT ![i] = GetNextChunkResult(nbufs)]
                /\ pc' = [pc EXCEPT ![i] = "upload_part"]
           ELSE /\ chunk' = chunk
                /\ pc' = pc

\* one turn of `async for chunk in file_`: the stream delivers its next n bytes
ReadChunk(i) ==
    /\ pc[i] = "read"
    /\ \E n \in 0..Len(file_[i]) :
        LET c == SubSeq(file_[i], 1, n)
        IN  /\ n = 0 => empties[i] < MaxEmptyChunks
            /\ empties' = [empties EXCEPT ![i] = IF n = 0 THEN @ + 1 ELSE @]
            /\ file_' = [file_ EXCEPT ![i] = SubSeq(@, n + 1, Len(@))]
            /\ delivered' = [delivered EXCEPT ![i] = Append(@, c)]
            /\ AfterChunk(i, c)
    /\ UNCHANGED <<min_size, upload_id, parts, part_number, exc, result, raised,
                   printed, calls, next_id, next_etag>>
    /\ UNCHANGED <<logVars, zipVars>>

\* the stream is exhausted: the async for ends and get_next_chunk returns
ReadEnd(i) ==
    /\ pc[i] = "read"
    /\ file_[i] = <<>>
    /\ chunk' = [chunk EXCEPT ![i] = GetNextChunkResult(bufs[i])]
    /\ pc' = [pc EXCEPT ![i] = "upload_part"]
    /\ UNCHANGED <<min_size, file_, empties, delivered, bufs, total, upload_id,
                   parts, part_number, exc, result, raised, printed, calls,
                   next_id, next_etag>>
    /\ UNCHANGED <<logVars, zipVars>>

\* (mutant) an upload_part error is swallowed and the upload is completed
ExceptThenComplete(i, e) ==
    /\ exc' = [exc EXCEPT ![i] = e]
    /\ pc' = [pc EXCEPT ![i] = IF e = "upload_part_error" THEN "complete" ELSE "abort"]

\* the except clause is entered with exception e
Except(i, e) ==
    /\ exc' = [exc EXCEPT ![i] = e]
    /\ pc' = [pc EXCEPT ![i] = "abort"]

\* reading the input stream raises inside the try
ReadError(i) ==
    /\ pc[i] = "read"
    /\ Except(i, "read_error")
    /\ UNCHANGED <<min_size, file_, empties, delivered, bufs, total, chunk,
                   upload_id, parts, part_number, result, raised, printed,
                   calls, next_id, next_etag>>
    /\ UNCHANGED <<logVars, zipVars>>

\* (mutant) part_number is not advanced
NextPartNumberStuck(n) == n

\* part_number += 1
NextPartNumber(n) == n + 1

\* (mutant) the loop reads on after a short chunk and breaks after a full one
AfterPartInverted(i) ==
    IF Len(chunk[i]) < min_size[i] THEN "read" ELSE "complete"

\* (mutant) the loop breaks after the first part
AfterPartBreakAlways(i) == "complete"

\* (mutant) the loop also breaks on a chunk of exactly min_size bytes
AfterPartBreakOnFull(i) ==
    IF Len(chunk[i]) <= min_size[i] THEN "complete" ELSE "read"

\* where the loop goes after a part was recorded
AfterPart(i) ==
    IF Len(chunk[i]) < min_size[i] THEN "complete" ELSE "read"

\* upload_part answers: the part is printed and recorded, part_number grows,
\* and the loop breaks on a short chunk or reads on
UploadPartOk(i) ==
    /\ pc[i] = "upload_part"
    /\ part_number[i] <= MaxParts
    /\ calls' = Append(calls, Call(i, "upload_part", upload_id[i], part_number[i],
                                   chunk[i], <<>>, "ok"))
    /\ next_etag' = next_etag + 1
    /\ printed' = [printed EXCEPT ![i] =
                     Append(@, Line("part added", "none", part_number[i], Len(chunk[i]), upload_id[i]))]
    /\ parts' = [parts EXCEPT ![i] =
                     Append(@, [PartNumber |-> part_number[i], ETag |-> next_etag])]
    /\ part_number' = [part_number EXCEPT ![i] = NextPartNumber(@)]
    /\ pc' = [pc EXCEPT ![i] = AfterPart(i)]
    /\ bufs' = [bufs EXCEPT ![i] = <<>>]
    /\ total' = [total EXCEPT ![i] = 0]
    /\ UNCHANGED <<min_size, file_, empties, delivered, chunk, upload_id, exc,
                   result, raised, next_id>>
    /\ UNCHANGED <<logVars, zipVars>>

\* (mutant) a failed upload_part is tried again
UploadPartFailRetry(i) ==
    /\ pc[i] = "upload_part"
    /\ calls' = Append(calls, Call(i, "upload_part", upload_id[i], part_number[i],
                                   chunk[i], <<>>, "error"))
    /\ UNCHANGED <<pc, exc, min_size, file_, empties, delivered, bufs, total, chunk,
                   upload_id, parts, part_number, result, raised, printed,
                   next_id, next_etag>>
    /\ UNCHANGED <<logVars, zipVars>>

\* upload_part raises inside the try
UploadPartFail(i) ==
    /\ pc[i] = "upload_part"
    /\ calls' = Append(calls, Call(i, "upload_part", upload_id[i], part_number[i],
                                   chunk[i], <<>>, "error"))
    /\ Except(i, "upload_part_error")
    /\ UNCHANGED <<min_size, file_, empties, delivered, bufs, total, chunk,
                   upload_id, parts, part_number, result, raised, printed,
                   next_id, next_etag>>
    /\ UNCHANGED <<logVars, zipVars>>

\* complete_multipart_upload answers: print and return True
CompleteOk(i) ==
    /\ pc[i] = "complete"
    /\ calls' = Append(calls, Call(i, "complete", upload_id[i], 0, <<>>, parts[i], "ok"))
    /\ printed' = [printed EXCEPT ![i] =
                     Append(@, Line("Multipart upload succeeded", "none", 0, 0, upload_id[i]))]
    /\ result' = [result EXCEPT ![i] = "True"]
    /\ pc' = [pc EXCEPT ![i] = "done"]
    /\ UNCHANGED <<min_size, file_, empties, delivered, bufs, total, chunk,
                   upload_id, parts, part_number, exc, raised, next_id, next_etag>>
    /\ UNCHANGED <<logVars, zipVars>>

\* complete_multipart_upload raises inside the try
CompleteFail(i) ==
    /\ pc[i] = "complete"
    /\ calls' = Append(calls, Call(i, "complete", upload_id[i], 0, <<>>, parts[i], "error"))
    /\ Except(i, "complete_error")
    /\ UNCHANGED <<min_size, file_, empties, delivered, bufs, total, chunk,
                   upload_id, parts, part_number, result, raised, printed,
                   next_id, next_etag>>
    /\ UNCHANGED <<logVars, zipVars>>

\* (mutant) the except clause returns True after the abort
AbortOkOutcomeTrue(i) ==
    [result |-> "True", raised |-> NoExc,
     printed |-> <<Line("exc", exc[i], 0, 0, 0),
                   Line("Multipart upload failed", "none", 0, 0, upload_id[i])>>]

\* how the except clause ends when abort_multipart_upload answers
AbortOkOutcome(i) ==
    [result |-> "False", raised |-> NoExc,
     printed |-> <<Line("exc", exc[i], 0, 0, 0),
                   Line("Multipart upload failed", "none", 0, 0, upload_id[i])>>]

\* how the except clause ends when abort_multipart_upload raises: the new error
\* leaves the coroutine from inside the handler, the prints and the return are skipped
AbortFailOutcome(i) ==
    [result |-> "raised", raised |-> [exc |-> "abort_error", context |-> exc[i]],
     printed |-> <<>>]

\* the except clause, abort_multipart_upload answering
AbortOk(i) ==
    /\ pc[i] = "abort"
    /\ calls' = Append(calls, Call(i, "abort", upload_id[i], 0, <<>>, <<>>, "ok"))
    /\ printed' = [printed EXCEPT ![i] = @ \o AbortOkOutcome(i).printed]
    /\ result' = [result EXCEPT ![i] = AbortOkOutcome(i).result]
    /\ raised' = [raised EXCEPT ![i] = AbortOkOutcome(i).raised]
    /\ pc' = [pc EXCEPT ![i] = "done"]
    /\ UNCHANGED <<min_size, file_, empties, delivered, bufs, total, chunk,
                   upload_id, parts, part_number, exc, next_id, next_etag>>
    /\ UNCHANGED <<logVars, zipVars>>

\* the except clause, abort_multipart_upload raising
AbortFail(i) ==
    /\ pc[i] = "abort"
    /\ calls' = Append(calls, Call(i, "abort", upload_id[i], 0, <<>>, <<>>, "error"))
    /\ printed' = [printed EXCEPT ![i] = @ \o AbortFailOutcome(i).printed]
    /\ result' = [result EXCEPT ![i] = AbortFailOutcome(i).result]
    /\ raised' = [raised EXCEPT ![i] = AbortFailOutcome(i).raised]
    /\ pc' = [pc EXCEPT ![i] = "done"]
    /\ UNCHANGED <<min_size, file_, empties, delivered, bufs, total, chunk,
                   upload_id, parts, part_number, exc, next_id, next_etag>>
    /\ UNCHANGED <<logVars, zipVars>>

\* the call an await of the coroutine has in flight, <<>> when it awaits the input
InFlight(i) ==
    CASE pc[i] = "create" -> <<Call(i, "create", 0, 0, <<>>, <<>>, "cancelled")>>
      [] pc[i] = "upload_part" ->
            <<Call(i, "upload_part", upload_id[i], part_number[i], chunk[i], <<>>, "cancelled")>>
      [] pc[i] = "complete" ->
            <<Call(i, "complete", upload_id[i], 0, <<>>, parts[i], "cancelled")>>
      [] pc[i] = "abort" -> <<Call(i, "abort", upload_id[i], 0, <<>>, <<>>, "cancelled")>>
      [] OTHER -> <<>>

\* the task is cancelled while suspended in an await: CancelledError is thrown
\* into the coroutine there. It is a BaseException, so `except Exception` does
\* not catch it and it leaves the coroutine; the request in flight was sent or not
Cancel(i) ==
    /\ pc[i] \in {"create", "read", "upload_part", "complete", "abort"}
    /\ \E sent \in BOOLEAN : calls' = IF sent THEN calls \o InFlight(i) ELSE calls
    /\ result' = [result EXCEPT ![i] = "raised"]
    /\ raised' = [raised EXCEPT ![i] =
                    [exc |-> "CancelledError",
                     context |-> IF pc[i] = "abort" THEN exc[i] ELSE "none"]]
    /\ pc' = [pc EXCEPT ![i] = "done"]
    /\ UNCHANGED <<min_size, file_, empties, delivered, bufs, total, chunk,
                   upload_id, parts, part_number, exc, printed, next_id, next_etag>>
    /\ UNCHANGED <<logVars, zipVars>>

\* ------------------------------------------------------------------ log text
\* A character of a log entry, which is also the byte that encodes it when it
\* is ASCII. "hdr" stands for the ASCII text
\*   {"timestamp": ts, "logLevel": lvl, "context": ctx, "message": "
\* and "end" for the ASCII text "} that closes the object; "a" and "x" are
\* letters, "nl" is the newline; "e_acute" is a character of two bytes in UTF-8,
\* the bytes "lead" and "cont".
Ch(k) == [k |-> k, ts |-> 0, lvl |-> "-", ctx |-> "-"]

Hdr(ts, lvl, ctx) == [k |-> "hdr", ts |-> ts, lvl |-> lvl, ctx |-> ctx]

\* the log records the entries of the model are written from
Timestamps == {1, 2}
Levels == {"info", "error"}
Contexts == {"general", "worker"}
Record(ts, lvl, ctx, msg) ==
    [timestamp |-> ts, logLevel |-> lvl, context |-> ctx, message |-> msg]

\* records of plain ASCII text
PlainRecords ==
    {Record(1, "info", "general", <<>>), Record(2, "error", "general", <<>>),
     Record(1, "error", "worker", <<>>), Record(2, "info", "worker", <<>>)}

\* a record whose message holds a two-byte character
AccentRecords == {Record(1, "info", "general", <<Ch("e_acute")>>)}

\* json.dumps(line_dict, ensure_ascii=False)
Dumps(r) == <<Hdr(r.timestamp, r.logLevel, r.context)>> \o r.message \o <<Ch("end")>>

\* the lines an entry is written from: plain records and odd lines (a record
\* with a two-byte character, a line that is no JSON, the empty line)
PlainLines == {Dumps(r) : r \in PlainRecords}
OddLines == {Dumps(r) : r \in AccentRecords} \cup {<<Ch("x")>>, <<>>}
LineTexts == PlainLines \cup OddLines

RECURSIVE Encode(_)
\* str.encode("utf-8")
Encode(cs) ==
    IF cs = <<>> THEN <<>>
    ELSE (IF Head(cs).k = "e_acute" THEN <<Ch("lead"), Ch("cont")>> ELSE <<Head(cs)>>)
         \o Encode(Tail(cs))

RECURSIVE Decode(_)
\* bytes.decode("utf-8", errors="ignore"): a lead byte without its continuation
\* byte and a continuation byte without its lead byte are dropped
Decode(bs) ==
    IF bs = <<>> THEN <<>>
    ELSE CASE Head(bs).k = "lead" ->
                IF Len(bs) >= 2 /\ bs[2].k = "cont"
                THEN <<Ch("e_acute")>> \o Decode(SubSeq(bs, 3, Len(bs)))
                ELSE Decode(Tail(bs))
           [] Head(bs).k = "cont" -> Decode(Tail(bs))
           [] OTHER -> <<Head(bs)>> \o Decode(Tail(bs))

RECURSIVE Split(_)
\* str.split("\n"): the pieces between the newlines, at least one
Split(cs) ==
    IF \A j \in 1..Len(cs) : cs[j].k # "nl" THEN <<cs>>
    ELSE LET j == CHOOSE j \in 1..Len(cs) :
                    cs[j].k = "nl" /\ \A l \in 1..(j - 1) : cs[l].k # "nl"
         IN  <<SubSeq(cs, 1, j - 1)>> \o Split(SubSeq(cs, j + 1, Len(cs)))

\* json.loads succeeds on the line
IsJson(line) ==
    /\ Len(line) >= 2
    /\ line[1].k = "hdr"
    /\ line[Len(line)].k = "end"
    /\ \A j \in 2..(Len(line) - 1) : line[j].k \in {"a", "e_acute"}

\* _parse_json: <<the dict>>, or <<>> for None when json.loads raises
ParseJson(line) ==
    IF IsJson(line)
    THEN <<[timestamp |-> line[1].ts, logLevel |-> line[1].lvl, context |-> line[1].ctx,
            message |-> SubSeq(line, 2, Len(line) - 1)]>>
    ELSE <<>>

\* the dicts stream_log_bytes_as_line_dicts yields for one line: none for an
\* empty line or a line that does not parse (a parsed record is never falsy)
LineDicts(line) == IF line = <<>> THEN <<>> ELSE ParseJson(line)

RECURSIVE LinesDicts(_)
\* the dicts yielded for the lines of chunk_by_line, in order
LinesDicts(lines) ==
    IF lines = <<>> THEN <<>> ELSE LineDicts(Head(lines)) \o LinesDicts(Tail(lines))

\* chunk = last_line + next_chunk.decode("utf-8", errors="ignore")
ChunkText(last, bytes) == last \o Decode(bytes)

\* (mutant) the first line of a chunk that does not parse ends the chunk: the
\* lines after it are not parsed
ChunkStepStopAtBadLine(last, bytes) ==
    LET chunk_by_line == Split(ChunkText(last, bytes))
        lines == SubSeq(chunk_by_line, 1, Len(chunk_by_line) - 1)
        bad == {j \in 1..Len(lines) : lines[j] # <<>> /\ ~IsJson(lines[j])}
        upto == IF bad = {} THEN Len(lines)
                ELSE (CHOOSE j \in bad : \A l \in bad : j <= l) - 1
    IN  [last_line |-> chunk_by_line[Len(chunk_by_line)],
         dicts |-> LinesDicts(SubSeq(lines, 1, upto))]

\* one turn of the loop of stream_log_bytes_as_line_dicts on the chunk `bytes`:
\* the new last_line and the dicts yielded
ChunkStep(last, bytes) ==
    LET chunk_by_line == Split(ChunkText(last, bytes))
    IN  [last_line |-> chunk_by_line[Len(chunk_by_line)],
         dicts |-> LinesDicts(SubSeq(chunk_by_line, 1, Len(chunk_by_line) - 1))]

\* ------------------------------------------------------------------ _sync_get_logs
\* an entry of zip_file.filelist: its directory, its name, whether it is a
\* directory entry
ZipInfo(dir, name, is_dir) == [dir |-> dir, name |-> name, is_dir |-> is_dir]

\* f.filename.startswith("logs/") and not f.is_dir()
IsLogFile(f) == f.dir = "logs" /\ ~f.is_dir

\* the filelist of a WACZ with n log entries: the logs/ directory entry, an
\* archive file, and the log entries
FileList(n) ==
    <<ZipInfo("logs", 0, TRUE), ZipInfo("archive", 1, FALSE)>>
    \o [k \in 1..n |-> ZipInfo("logs", k, FALSE)]

RECURSIVE EntryData(_, _)
\* the bytes of an entry written from `lines`, the last line newline-terminated
\* or not
EntryData(lines, terminated) ==
    IF lines = <<>> THEN <<>>
    ELSE Encode(Head(lines))
         \o (IF Len(lines) > 1 \/ terminated THEN <<Ch("nl")>> ELSE <<>>)
         \o EntryData(Tail(lines), terminated)

\* the records the lines of an entry hold: its whole bytes decoded, split on
\* newlines, and every line parsed
RefRecords(data) == LinesDicts(Split(Decode(data)))

\* the number of odd lines among `lines`
OddCount(lines) == Cardinality({j \in 1..Len(lines) : lines[j] \in OddLines})

\* the number of lines among `lines` that are not empty and that json.loads
\* rejects
MalformedCount(lines) ==
    Cardinality({j \in 1..Len(lines) : lines[j] # <<>> /\ ~IsJson(lines[j])})

\* the exception leaves _sync_get_logs: its locals are gone, nothing is returned
LogsFail ==
    /\ lpc' = "failed"
    /\ log_files' = <<>>
    /\ entry' = 1
    /\ log_stream' = <<>>
    /\ last_line' = <<>>
    /\ wacz_log_streams' = <<>>
    /\ log_generators' = <<>>
    /\ UNCHANGED <<log_levels, contexts, wacz, entry_records, lines_used, odd_used,
                   heap_iter, out>>
    /\ UNCHANGED <<malformed, uploadVars, zipVars>>

\* sync_get_zip_file answers for the next WACZ: log_files is filtered from its
\* filelist and wacz_log_streams starts empty
OpenZip ==
    /\ lpc = "open_zip"
    /\ wacz <= NumWacz
    /\ \E n \in 0..MaxLogFiles : log_files' = SelectSeq(FileList(n), IsLogFile)
    /\ entry_records' = Append(entry_records, <<>>)
    /\ wacz_log_streams' = <<>>
    /\ entry' = 1
    /\ lpc' = "open_entry"
    /\ UNCHANGED <<log_levels, contexts, wacz, lines_used, odd_used, log_stream,
                   last_line, log_generators, heap_iter, out>>
    /\ UNCHANGED <<malformed, uploadVars, zipVars>>

\* (mutant) an archive whose index cannot be read is left out of the merge
OpenZipFailSkipsArchive ==
    /\ lpc = "open_zip"
    /\ wacz <= NumWacz
    /\ log_generators' = Append(log_generators, <<>>)
    /\ wacz' = wacz + 1
    /\ UNCHANGED <<lpc, log_levels, contexts, entry_records, lines_used, odd_used,
                   log_files, entry, log_stream, last_line, wacz_log_streams,
                   heap_iter, out>>
    /\ UNCHANGED <<malformed, uploadVars, zipVars>>

\* sync_get_zip_file raises
OpenZipFail ==
    /\ lpc = "open_zip"
    /\ wacz <= NumWacz
    /\ LogsFail

\* sync_get_log_stream answers for the next log file: a stream over its bytes;
\* stream_log_bytes_as_line_dicts starts with last_line = ""
OpenEntry ==
    /\ lpc = "open_entry"
    /\ entry <= Len(log_files)
    /\ \E n \in 0..(MaxLines - lines_used) :
        \E lines \in [1..n -> LineTexts], terminated \in BOOLEAN :
            /\ odd_used + OddCount(lines) <= MaxOddLines
            /\ log_stream' = EntryData(lines, terminated)
            /\ entry_records' = [entry_records EXCEPT ![wacz] =
                                    Append(@, RefRecords(EntryData(lines, terminated)))]
            /\ lines_used' = lines_used + n
            /\ odd_used' = odd_used + OddCount(lines)
            /\ malformed' = malformed + MalformedCount(lines)
    /\ last_line' = <<>>
    /\ lpc' = "read"
    /\ UNCHANGED <<log_levels, contexts, wacz, log_files, entry, wacz_log_streams,
                   log_generators, heap_iter, out>>
    /\ UNCHANGED <<uploadVars, zipVars>>

\* sync_get_log_stream raises
OpenEntryFail ==
    /\ lpc = "open_entry"
    /\ entry <= Len(log_files)
    /\ LogsFail

\* next(stream_generator) delivers the next n bytes: decode, split, keep the
\* last piece, parse the other pieces; extend() appends the dicts yielded
ReadLogChunk ==
    /\ lpc = "read"
    /\ \E n \in 1..Len(log_stream) :
        LET step == ChunkStep(last_line, SubSeq(log_stream, 1, n))
        IN  /\ log_stream' = SubSeq(log_stream, n + 1, Len(log_stream))
            /\ last_line' = step.last_line
            /\ wacz_log_streams' = wacz_log_streams \o step.dicts
    /\ UNCHANGED <<lpc, log_levels, contexts, wacz, entry_records, lines_used, odd_used, log_files, entry,
                   log_generators, heap_iter, out>>
    /\ UNCHANGED <<malformed, uploadVars, zipVars>>

\* next(stream_generator) raises StopIteration: the held line, if any, is
\* parsed, and the loop over log_files goes on
ReadLogEnd ==
    /\ lpc = "read"
    /\ log_stream = <<>>
    /\ wacz_log_streams' = wacz_log_streams \o LineDicts(last_line)
    /\ entry' = entry + 1
    /\ lpc' = "open_entry"
    /\ UNCHANGED <<log_levels, contexts, wacz, entry_records, lines_used, odd_used, log_files, log_stream,
                   last_line, log_generators, heap_iter, out>>
    /\ UNCHANGED <<malformed, uploadVars, zipVars>>

\* next(stream_generator) raises another exception
ReadLogFail ==
    /\ lpc = "read"
    /\ LogsFail

\* the list appended to log_generators for a WACZ
WaczLogStreams == wacz_log_streams

\* the log files of the WACZ are all read: log_generators.append(wacz_log_streams)
EndWacz ==
    /\ lpc = "open_entry"
    /\ entry > Len(log_files)
    /\ log_generators' = Append(log_generators, WaczLogStreams)
    /\ wacz' = wacz + 1
    /\ lpc' = "open_zip"
    /\ UNCHANGED <<log_levels, contexts, entry_records, lines_used, odd_used, log_files, entry, log_stream,
                   last_line, wacz_log_streams, heap_iter, out>>
    /\ UNCHANGED <<malformed, uploadVars, zipVars>>

\* ---- heapq.merge(*log_generators, key=...)
\* key=lambda entry: entry["timestamp"]
Key(r) == r.timestamp

\* the heap item [key(value), order, value, next] of source s at position k
HeapItem(s, k) ==
    [key |-> Key(log_generators[s][k]), order |-> s - 1, value |-> log_generators[s][k]]

\* (mutant) heap items compare by their order alone
LessByOrder(x, y) == x.order < y.order

\* the comparison of two heap items, which are lists: by key, then by order
Less(x, y) == x.key < y.key \/ (x.key = y.key /\ x.order < y.order)

\* h[0], the smallest item of the heap
HeapMin(h) == CHOOSE x \in h : \A y \in h \ {x} : Less(x, y)

\* the generator before its first next()
MergeNew ==
    [mode |-> "new", h |-> {}, pos |-> [s \in 1..Len(log_generators) |-> 0], cur |-> 0]

\* the top of the outer loop of merge with heap h: yield from the heap while it
\* holds more than one item, then yield the last item and go on from its
\* iterator, or stop
MergeLoop(h, pos) ==
    IF Cardinality(h) > 1
    THEN [m |-> [mode |-> "multi", h |-> h, pos |-> pos, cur |-> HeapMin(h).order + 1],
          value |-> <<HeapMin(h).value>>]
    ELSE IF h # {}
    THEN [m |-> [mode |-> "single", h |-> h, pos |-> pos, cur |-> HeapMin(h).order + 1],
          value |-> <<HeapMin(h).value>>]
    ELSE [m |-> [mode |-> "end", h |-> h, pos |-> pos, cur |-> 0], value |-> <<>>]

\* one next() of the merge generator in state m: its new state and <<the value
\* yielded>>, or <<>> when it stops
MergeNext(m) ==
    CASE m.mode = "new" ->
            LET full == {s \in DOMAIN m.pos : log_generators[s] # <<>>}
            IN  MergeLoop({HeapItem(s, 1) : s \in full},
                          [s \in DOMAIN m.pos |-> IF s \in full THEN 1 ELSE 0])
      [] m.mode = "multi" ->
            LET s == m.cur
                old == CHOOSE x \in m.h : x.order = s - 1
            IN  IF m.pos[s] < Len(log_generators[s])
                THEN LET h == (m.h \ {old}) \cup {HeapItem(s, m.pos[s] + 1)}
                     IN  [m |-> [mode |-> "multi", h |-> h,
                                 pos |-> [m.pos EXCEPT ![s] = @ + 1],
                                 cur |-> HeapMin(h).order + 1],
                          value |-> <<HeapMin(h).value>>]
                ELSE MergeLoop(m.h \ {old}, m.pos)
      [] m.mode = "single" ->
            LET s == m.cur
            IN  IF m.pos[s] < Len(log_generators[s])
                THEN [m |-> [m EXCEPT !.pos[s] = @ + 1],
                      value |-> <<log_generators[s][m.pos[s] + 1]>>]
                ELSE [m |-> [m EXCEPT !.mode = "end"], value |-> <<>>]
      [] OTHER -> [m |-> m, value |-> <<>>]

\* wacz_files is read through: heap_iter and the generator over it are made
\* and returned; nothing is merged yet
Return ==
    /\ lpc = "open_zip"
    /\ wacz > NumWacz
    /\ heap_iter' = MergeNew
    /\ lpc' = "returned"
    /\ UNCHANGED <<log_levels, contexts, wacz, entry_records, lines_used, odd_used, log_files, entry, log_stream,
                   last_line, wacz_log_streams, log_generators, out>>
    /\ UNCHANGED <<malformed, uploadVars, zipVars>>

\* (mutant) an empty filter set lets no record pass
PassesEmptyFilters(r) ==
    /\ r.logLevel \in log_levels
    /\ r.context \in contexts

\* stream_json_lines: the record is not skipped by the two filters
Passes(r) ==
    /\ ~(log_levels # {} /\ r.logLevel \notin log_levels)
    /\ ~(contexts # {} /\ r.context \notin contexts)

\* json_str.encode("utf-8") of json.dumps(line_dict, ensure_ascii=False) + "\n"
JsonLine(r) == Encode(Dumps(r) \o <<Ch("nl")>>)

\* stream_json_lines: the next record of heap_iter passes the filters and its
\* line is yielded
EmitLine ==
    /\ lpc = "returned"
    /\ LET n == MergeNext(heap_iter)
       IN  /\ n.value # <<>>
           /\ Passes(n.value[1])
           /\ heap_iter' = n.m
           /\ out' = Append(out, JsonLine(n.value[1]))
    /\ UNCHANGED <<lpc, log_levels, contexts, wacz, entry_records, lines_used, odd_used, log_files, entry,
                   log_stream, last_line, wacz_log_streams, log_generators>>
    /\ UNCHANGED <<malformed, uploadVars, zipVars>>

\* stream_json_lines: the next record of heap_iter is skipped
SkipLine ==
    /\ lpc = "returned"
    /\ LET n == MergeNext(heap_iter)
       IN  /\ n.value # <<>>
           /\ ~Passes(n.value[1])
           /\ heap_iter' = n.m
    /\ UNCHANGED <<lpc, log_levels, contexts, wacz, entry_records, lines_used, odd_used, log_files, entry,
                   log_stream, last_line, wacz_log_streams, log_generators, out>>
    /\ UNCHANGED <<malformed, uploadVars, zipVars>>

\* stream_json_lines: heap_iter is exhausted, the generator ends
StreamEnd ==
    /\ lpc = "returned"
    /\ LET n == MergeNext(heap_iter)
       IN  /\ n.value = <<>>
           /\ heap_iter' = n.m
    /\ lpc' = "exhausted"
    /\ UNCHANGED <<log_levels, contexts, wacz, entry_records, lines_used, odd_used, log_files, entry,
                   log_stream, last_line, wacz_log_streams, log_generators, out>>
    /\ UNCHANGED <<malformed, uploadVars, zipVars>>

\* ------------------------------------------------------------------ _sync_dl
\* A byte of the zip stream, in the units of the model: "lfh" is the local file
\* header of the member `name`, which for NO_COMPRESSION_64 carries the size n
\* of the member; "data" is byte n of the object stored under `name`; "json"
\* is the text of json.dumps of the manifest whose resources are `doc`; "cdh"
\* is the central directory header of `name` with size n; "eocd" is the end of
\* central directory record of n members.
ZByte(k, name, n, doc) == [k |-> k, name |-> name, n |-> n, doc |-> doc]

\* the names of the files a caller passes
FileNames == {"a.wacz", "b.wacz"}

\* a CrawlFileOut record
CrawlFileOut(name, path, size) ==
    [name |-> name, path |-> path, hash |-> "hash", size |-> size, crawlId |-> "crawl"]

\* the records a caller passes: any name and declared size, the path not yet set
FileRecords == {CrawlFileOut(n, "", s) : n \in FileNames, s \in 0..MaxFileSize}

\* for file_ in all_files: file_.path = file_.name
SetPaths(fs) == [k \in 1..Len(fs) |-> [fs[k] EXCEPT !.path = fs[k].name]]

\* json.dumps({"profile": ..., "resources": [file_.dict() ...]}).encode("utf-8"),
\* computed from the records as the caller passed them
Datapackage(fs) == <<ZByte("json", "datapackage.json", 0, fs)>>

\* the bytes of the object stored under key + name
Object(name) == [j \in 1..stored[name] |-> ZByte("data", name, j, <<>>)]

\* (mutant) member_files yields the manifest first
MemberFilesManifestFirst ==
    <<[name |-> "datapackage.json", source |-> "datapackage"]>>
    \o [k \in 1..Len(all_files) |->
            [name |-> all_files[k].name, source |-> "get_file"]]

\* the members member_files() yields, in order: their name and where their
\* data comes from (modified_at, perms and the method are the same for all)
MemberFiles ==
    [k \in 1..Len(all_files) |->
            [name |-> all_files[k].name, source |-> "get_file"]]
    \o <<[name |-> "datapackage.json", source |-> "datapackage"]>>

\* stream_zip, a NO_COMPRESSION_64 member: the local header with the size of
\* the buffered data, then the data
LocalHeaderAndData(name, data) == <<ZByte("lfh", name, Len(data), <<>>)>> \o data

\* stream_zip: the central directory, one header per recorded member, and the
\* end of central directory record
CentralDirectoryAndEnd(cd) ==
    [k \in 1..Len(cd) |-> ZByte("cdh", cd[k].name, cd[k].size, <<>>)]
    \o <<ZByte("eocd", "", Len(cd), <<>>)>>

\* stream_zip, evenly_sized, one block: up to CHUNK_SIZE of the bytes produced
\* are joined and yielded, the rest is held back
EvenlySized(held) ==
    LET n == IF Len(held) < CHUNK_SIZE THEN Len(held) ELSE CHUNK_SIZE
    IN  [block |-> SubSeq(held, 1, n), held |-> SubSeq(held, n + 1, Len(held))]

\* (mutant) the members are made when _sync_dl is called, not while the stream
\* is read: get_object is called for every file at once
SyncDlOpensAll ==
    /\ zpc = "start"
    /\ all_files' = SetPaths(all_files)
    /\ datapackage' = Datapackage(SetPaths(all_files))
    /\ member' = 1
    /\ zpc' = "member"
    /\ gets' = [k \in 1..Len(all_files) |-> all_files[k].name]
    /\ UNCHANGED <<stored, response, buffered, pending, zout, central_directory,
                   zraised, waiting, pulls>>
    /\ UNCHANGED <<uploadVars, logVars>>

\* _sync_dl runs in the executor: the paths are set, the manifest is encoded
\* and the stream_zip generator is returned, nothing of it run yet
SyncDl ==
    /\ zpc = "start"
    /\ all_files' = SetPaths(all_files)
    /\ datapackage' = Datapackage(SetPaths(all_files))
    /\ member' = 1
    /\ zpc' = "member"
    /\ UNCHANGED <<stored, response, buffered, pending, zout, central_directory,
                   zraised, waiting, pulls, gets>>
    /\ UNCHANGED <<uploadVars, logVars>>

\* the consumer calls next() on the generator, which runs until it yields a
\* block, ends or raises
ZipNext ==
    /\ zpc \in {"member", "read", "end"}
    /\ ~waiting
    /\ waiting' = TRUE
    /\ pulls' = pulls + 1
    /\ UNCHANGED <<zpc, all_files, stored, datapackage, member, response, buffered,
                   pending, zout, central_directory, zraised, gets>>
    /\ UNCHANGED <<uploadVars, logVars>>

\* evenly_sized holds a full block: it is yielded to the consumer
YieldBlock ==
    /\ waiting
    /\ Len(pending) >= CHUNK_SIZE
    /\ zout' = Append(zout, EvenlySized(pending).block)
    /\ pending' = EvenlySized(pending).held
    /\ waiting' = FALSE
    /\ UNCHANGED <<zpc, all_files, stored, datapackage, member, response, buffered,
                   central_directory, zraised, pulls, gets>>
    /\ UNCHANGED <<uploadVars, logVars>>

\* evenly_sized is asked for a block it cannot fill from what it holds: it
\* pulls more bytes from the zip writer
Pulling == waiting /\ Len(pending) < CHUNK_SIZE

\* an exception leaves the zip generator: the bytes it held back are gone
ZipFail(e) ==
    /\ zpc' = "failed"
    /\ zraised' = e
    /\ pending' = <<>>
    /\ response' = <<>>
    /\ buffered' = <<>>
    /\ waiting' = FALSE
    /\ UNCHANGED <<all_files, stored, datapackage, member, zout, central_directory,
                   pulls>>
    /\ UNCHANGED <<uploadVars, logVars>>

\* member_files reaches a stored file: get_file, get_object answering
GetFileOk ==
    /\ zpc = "member"
    /\ Pulling
    /\ member <= Len(MemberFiles)
    /\ MemberFiles[member].source = "get_file"
    /\ gets' = Append(gets, MemberFiles[member].name)
    /\ response' = Object(MemberFiles[member].name)
    /\ buffered' = <<>>
    /\ zpc' = "read"
    /\ UNCHANGED <<all_files, stored, datapackage, member, pending, zout,
                   central_directory, zraised, waiting, pulls>>
    /\ UNCHANGED <<uploadVars, logVars>>

\* get_object raises inside member_files
GetFileFail ==
    /\ zpc = "member"
    /\ Pulling
    /\ member <= Len(MemberFiles)
    /\ MemberFiles[member].source = "get_file"
    /\ gets' = Append(gets, MemberFiles[member].name)
    /\ ZipFail("get_object_error")

\* iter_chunks delivers the next chunk of at most CHUNK_SIZE bytes; stream_zip
\* buffers the data of a NO_COMPRESSION_64 member to learn its size
ReadBody ==
    /\ zpc = "read"
    /\ Pulling
    /\ response # <<>>
    /\ LET n == IF Len(response) < CHUNK_SIZE THEN Len(response) ELSE CHUNK_SIZE
       IN  /\ buffered' = Append(buffered, SubSeq(response, 1, n))
           /\ response' = SubSeq(response, n + 1, Len(response))
    /\ UNCHANGED <<zpc, all_files, stored, datapackage, member, pending, zout,
                   central_directory, zraised, waiting, pulls, gets>>
    /\ UNCHANGED <<uploadVars, logVars>>

\* iter_chunks raises
ReadBodyFail ==
    /\ zpc = "read"
    /\ Pulling
    /\ response # <<>>
    /\ gets' = gets
    /\ ZipFail("read_error")

\* stream_zip writes the member `name` with the data `data`: header and data
\* go to evenly_sized, the member is recorded for the central directory
WriteMember(name, data) ==
    /\ pending' = pending \o LocalHeaderAndData(name, data)
    /\ central_directory' = Append(central_directory,
                                   [name |-> name, size |-> Len(data)])
    /\ member' = member + 1
    /\ zpc' = "member"

\* the Body of a stored file is read through: its member is written
WriteFile ==
    /\ zpc = "read"
    /\ Pulling
    /\ response = <<>>
    /\ WriteMember(MemberFiles[member].name, Join(buffered))
    /\ buffered' = <<>>
    /\ UNCHANGED <<all_files, stored, datapackage, response, zout, zraised,
                   waiting, pulls, gets>>
    /\ UNCHANGED <<uploadVars, logVars>>

\* member_files reaches the manifest: its one chunk is the encoded datapackage
WriteManifest ==
    /\ zpc = "member"
    /\ Pulling
    /\ member <= Len(MemberFiles)
    /\ MemberFiles[member].source = "datapackage"
    /\ WriteMember(MemberFiles[member].name, datapackage)
    /\ UNCHANGED <<all_files, stored, datapackage, response, buffered, zout,
                   zraised, waiting, pulls, gets>>
    /\ UNCHANGED <<uploadVars, logVars>>

\* member_files is exhausted: the central directory and its end record are
\* written and the zip writer ends
Finalize ==
    /\ zpc = "member"
    /\ Pulling
    /\ member > Len(MemberFiles)
    /\ pending' = pending \o CentralDirectoryAndEnd(central_directory)
    /\ zpc' = "end"
    /\ UNCHANGED <<all_files, stored, datapackage, member, response, buffered,
                   zout, central_directory, zraised, waiting, pulls, gets>>
    /\ UNCHANGED <<uploadVars, logVars>>

\* the zip writer has ended: evenly_sized yields the bytes left, short of a
\* full block
YieldRest ==
    /\ zpc = "end"
    /\ Pulling
    /\ pending # <<>>
    /\ zout' = Append(zout, EvenlySized(pending).block)
    /\ pending' = EvenlySized(pending).held
    /\ waiting' = FALSE
    /\ UNCHANGED <<zpc, all_files, stored, datapackage, member, response, buffered,
                   central_directory, zraised, pulls, gets>>
    /\ UNCHANGED <<uploadVars, logVars>>

\* nothing is left: the generator ends, next() raises StopIteration
ZipEnd ==
    /\ zpc = "end"
    /\ Pulling
    /\ pending = <<>>
    /\ zpc' = "done"
    /\ waiting' = FALSE
    /\ UNCHANGED <<all_files, stored, datapackage, member, response, buffered,
                   pending, zout, central_directory, zraised, pulls, gets>>
    /\ UNCHANGED <<uploadVars, logVars>>

\* ------------------------------------------------------------------ specifications
\* the state of an invocation that was never started
IdleUpload ==
    /\ bufs = [i \in Invocations |-> <<>>]
    /\ total = [i \in Invocations |-> 0]
    /\ chunk = [i \in Invocations |-> <<>>]
    /\ upload_id = [i \in Invocations |-> 0]
    /\ parts = [i \in Invocations |-> <<>>]
    /\ part_number = [i \in Invocations |-> 0]
    /\ exc = [i \in Invocations |-> "none"]
    /\ result = [i \in Invocations |-> "none"]
    /\ raised = [i \in Invocations |-> NoExc]
    /\ printed = [i \in Invocations |-> <<>>]
    /\ empties = [i \in Invocations |-> 0]
    /\ delivered = [i \in Invocations |-> <<>>]
    /\ calls = <<>>
    /\ next_id = 1
    /\ next_etag = 1

\* _sync_get_logs not called
IdleLogs ==
    /\ lpc = "idle"
    /\ log_levels = {}
    /\ contexts = {}
    /\ wacz = 1
    /\ entry_records = <<>>
    /\ lines_used = 0
    /\ odd_used = 0
    /\ malformed = 0
    /\ log_files = <<>>
    /\ entry = 1
    /\ log_stream = <<>>
    /\ last_line = <<>>
    /\ wacz_log_streams = <<>>
    /\ log_generators = <<>>
    /\ heap_iter = [mode |-> "new", h |-> {}, pos |-> <<>>, cur |-> 0]
    /\ out = <<>>

\* _sync_dl not called
IdleZip ==
    /\ zpc = "idle"
    /\ all_files = <<>>
    /\ stored = [n \in FileNames |-> 0]
    /\ datapackage = <<>>
    /\ member = 1
    /\ response = <<>>
    /\ buffered = <<>>
    /\ pending = <<>>
    /\ zout = <<>>
    /\ central_directory = <<>>
    /\ zraised = "none"
    /\ waiting = FALSE
    /\ pulls = 0
    /\ gets = <<>>

\* one invocation, any min_size and any input stream within the bounds
InitUpload ==
    /\ IdleUpload
    /\ IdleLogs
    /\ IdleZip
    /\ pc = [i \in Invocations |-> IF i = 1 THEN "create" ELSE "idle"]
    /\ \E m \in 0..MaxMinSize, n \in 0..MaxTotal :
        /\ min_size = [i \in Invocations |-> IF i = 1 THEN m ELSE 0]
        /\ file_ = [i \in Invocations |-> IF i = 1 THEN Bytes(n) ELSE <<>>]

NextUpload ==
    \E i \in Invocations :
        \/ CreateOk(i)
        \/ CreateFail(i)
        \/ ReadChunk(i)
        \/ ReadEnd(i)
        \/ ReadError(i)
        \/ UploadPartOk(i)
        \/ UploadPartFail(i)
        \/ CompleteOk(i)
        \/ CompleteFail(i)
        \/ AbortOk(i)
        \/ AbortFail(i)
        \/ Cancel(i)

SpecUpload == InitUpload /\ [][NextUpload]_vars

\* one invocation whose input needs no more parts than the store takes when
\* min_size is positive: at most MaxParts - 1 bytes
InitReturning ==
    /\ IdleUpload
    /\ IdleLogs
    /\ IdleZip
    /\ pc = [i \in Invocations |-> IF i = 1 THEN "create" ELSE "idle"]
    /\ \E m \in 0..MaxMinSize, n \in 0..(MaxParts - 1) :
        /\ min_size = [i \in Invocations |-> IF i = 1 THEN m ELSE 0]
        /\ file_ = [i \in Invocations |-> IF i = 1 THEN Bytes(n) ELSE <<>>]

\* the steps of a run in which the input is read without error and every
\* call of the store answers
NextReturning ==
    \E i \in Invocations :
        \/ CreateOk(i)
        \/ ReadChunk(i)
        \/ ReadEnd(i)
        \/ UploadPartOk(i)
        \/ CompleteOk(i)

\* such runs, the coroutine being resumed whenever what it awaits is there
SpecReturning == InitReturning /\ [][NextReturning]_vars /\ WF_vars(NextReturning)

\* the min_size of the invocations that run interleaved
ConcurrentMinSizes == {1}

\* two invocations started together, each with its own input stream, running
\* interleaved at their awaits against the same store
InitConcurrent ==
    /\ IdleUpload
    /\ IdleLogs
    /\ IdleZip
    /\ pc = [i \in Invocations |-> "create"]
    /\ min_size \in [Invocations -> ConcurrentMinSizes]
    /\ \E n \in [Invocations -> 0..MaxTotalEach] :
        file_ = [i \in Invocations |-> Bytes(n[i])]

SpecConcurrent == InitConcurrent /\ [][NextUpload]_vars

\* the filter sets a caller passes
LevelFilters == {{}, {"error"}}
ContextFilters == {{}, {"worker"}}

\* _sync_get_logs is called with NumWacz files and any of the filters
InitLogs ==
    /\ IdleUpload
    /\ IdleZip
    /\ pc = [i \in Invocations |-> "idle"]
    /\ min_size = [i \in Invocations |-> 0]
    /\ file_ = [i \in Invocations |-> <<>>]
    /\ lpc = "open_zip"
    /\ log_levels \in LevelFilters
    /\ contexts \in ContextFilters
    /\ wacz = 1
    /\ entry_records = <<>>
    /\ lines_used = 0
    /\ odd_used = 0
    /\ malformed = 0
    /\ log_files = <<>>
    /\ entry = 1
    /\ log_stream = <<>>
    /\ last_line = <<>>
    /\ wacz_log_streams = <<>>
    /\ log_generators = <<>>
    /\ heap_iter = [mode |-> "new", h |-> {}, pos |-> <<>>, cur |-> 0]
    /\ out = <<>>

NextLogs ==
    \/ OpenZip
    \/ OpenZipFail
    \/ OpenEntry
    \/ OpenEntryFail
    \/ ReadLogChunk
    \/ ReadLogEnd
    \/ ReadLogFail
    \/ EndWacz
    \/ Return
    \/ EmitLine
    \/ SkipLine
    \/ StreamEnd

SpecLogs == InitLogs /\ [][NextLogs]_vars

\* _sync_dl is called with up to MaxFiles file records, over any stored objects
InitZip ==
    /\ IdleUpload
    /\ pc = [i \in Invocations |-> "idle"]
    /\ min_size = [i \in Invocations |-> 0]
    /\ file_ = [i \in Invocations |-> <<>>]
    /\ IdleLogs
    /\ zpc = "start"
    /\ \E n \in 0..MaxFiles : all_files \in [1..n -> FileRecords]
    /\ stored \in [FileNames -> 0..MaxFileSize]
    /\ datapackage = <<>>
    /\ member = 1
    /\ response = <<>>
    /\ buffered = <<>>
    /\ pending = <<>>
    /\ zout = <<>>
    /\ central_directory = <<>>
    /\ zraised = "none"
    /\ waiting = FALSE
    /\ pulls = 0
    /\ gets = <<>>

NextZip ==
    \/ SyncDl
    \/ GetFileOk
    \/ GetFileFail
    \/ ReadBody
    \/ ReadBodyFail
    \/ WriteFile
    \/ WriteManifest
    \/ Finalize
    \/ ZipNext
    \/ YieldBlock
    \/ YieldRest
    \/ ZipEnd

SpecZip == InitZip /\ [][NextZip]_vars

\* ------------------------------------------------------------------ claims: do_upload_multipart
\* the calls of invocation i with operation op, in the order they were issued
CallsOf(i, op) == SelectSeq(calls, LAMBDA c : c.inv = i /\ c.op = op)

\* invocation i has returned or raised
Finished(i) == pc[i] = "done"

\* create_multipart_upload answered invocation i
Created(i) == upload_id[i] # 0

\* an upload_part or complete call of invocation i raised
PartOrCompleteFailed(i) ==
    \E k \in 1..Len(calls) :
        /\ calls[k].inv = i
        /\ calls[k].op \in {"upload_part", "complete"}
        /\ calls[k].outcome = "error"

\* invocation i was cancelled
Cancelled(i) == raised[i].exc = "CancelledError"

\* an abort call for i's upload id was issued
AbortIssued(i) ==
    \E k \in 1..Len(calls) :
        /\ calls[k].inv = i
        /\ calls[k].op = "abort"
        /\ calls[k].UploadId = upload_id[i]

\* the offsets of the input at which the stream cut its chunks
RECURSIVE Boundaries(_)
Boundaries(cs) ==
    IF cs = <<>> THEN {}
    ELSE {Len(Join(cs))} \cup Boundaries(SubSeq(cs, 1, Len(cs) - 1))

\* the (PartNumber, ETag) pairs the successful upload_part calls of i returned
ReturnedPairs(i) ==
    LET ok == SelectSeq(CallsOf(i, "upload_part"), LAMBDA c : c.outcome = "ok")
    IN  [k \in 1..Len(ok) |-> [PartNumber |-> ok[k].PartNumber, ETag |-> ok[k].ETag]]

\* invocation i ran to the end with every call answering and returned True
AllSucceeded(i) == Finished(i) /\ result[i] = "True"

\* C1 (as claimed): once create succeeded, a run in which an upload_part or the
\* complete call failed (and that was not cancelled) ends with an abort call for
\* its uploadId issued and the value False returned.
C1_AbortThenFalse ==
    \A i \in Invocations :
        (Finished(i) /\ Created(i) /\ PartOrCompleteFailed(i) /\ ~Cancelled(i))
            => (AbortIssued(i) /\ result[i] = "False")

\* C2: after an upload_part call of an invocation failed, that invocation issues
\* no complete call and no further upload_part call.
C2_NoCallAfterFailedPart ==
    \A j, k \in 1..Len(calls) :
        (/\ j < k
         /\ calls[j].op = "upload_part"
         /\ calls[j].outcome = "error"
         /\ calls[k].inv = calls[j].inv)
            => calls[k].op \notin {"upload_part", "complete"}

\* C2 witness: the 3rd upload_part call failed and the run has ended.
C2_Witness ==
    /\ Finished(1)
    /\ Len(CallsOf(1, "upload_part")) = 3
    /\ CallsOf(1, "upload_part")[3].outcome = "error"
    /\ AbortIssued(1)

\* the input stream of i holds exactly 3 * min_size + 1 bytes, read or not
ThreeMinPlusOne(i) ==
    Len(Join(delivered[i])) + Len(file_[i]) = 3 * min_size[i] + 1

\* C3 (as claimed): every stream of 3 * min_size + 1 bytes, however it is cut into
\* chunks, is uploaded with all calls answering as exactly 4 parts, the last of 1
\* byte, and complete lists those 4 pairs in order.
C3_FourPartsAnyChunking ==
    \A i \in Invocations :
        (AllSucceeded(i) /\ ThreeMinPlusOne(i))
            => /\ Len(CallsOf(i, "upload_part")) = 4
               /\ Len(CallsOf(i, "upload_part")[4].Body) = 1
               /\ CallsOf(i, "complete")[1].Parts = ReturnedPairs(i)

\* no chunk the stream of i delivered runs across the offset min_size,
\* 2 * min_size or 3 * min_size: a chunk ends at each of them that was reached
AlignedChunks(i) ==
    \A k \in 1..3 :
        k * min_size[i] <= Len(Join(delivered[i]))
            => k * min_size[i] \in Boundaries(delivered[i])

\* C3 (amended): a stream of 3 * min_size + 1 bytes whose chunks end at min_size,
\* 2 * min_size and 3 * min_size is uploaded, all calls answering, as 3 parts of
\* min_size bytes and a 4th of 1 byte; for min_size >= 2 these are all the parts,
\* for min_size = 1 a 5th, empty part follows; complete lists exactly the pairs
\* the upload_part calls returned, in order.
C3_FourPartsAligned ==
    \A i \in Invocations :
        (AllSucceeded(i) /\ ThreeMinPlusOne(i) /\ AlignedChunks(i))
            => LET up == CallsOf(i, "upload_part")
               IN  /\ Len(up) = IF min_size[i] >= 2 THEN 4 ELSE 5
                   /\ \A k \in 1..3 : Len(up[k].Body) = min_size[i]
                   /\ Len(up[4].Body) = 1
                   /\ Len(up) = 5 => up[5].Body = <<>>
                   /\ \A k \in 1..Len(up) : up[k].PartNumber = k
                   /\ Len(CallsOf(i, "complete")) = 1
                   /\ CallsOf(i, "complete")[1].Parts = ReturnedPairs(i)

\* C3 witness: 7 bytes with min_size 2, delivered in aligned chunks, uploaded
\* and completed.
C3_Witness ==
    /\ AllSucceeded(1) /\ ThreeMinPlusOne(1) /\ AlignedChunks(1)
    /\ min_size[1] = 2
    /\ Len(CallsOf(1, "upload_part")) = 4

\* C4: the recorded parts are numbered 1, 2, ..., n in order, the k-th
\* upload_part call carries PartNumber k, and the bodies of the calls are
\* consecutive cuts of the input, in input order.
C4_PartNumbersSequential ==
    \A i \in Invocations :
        LET up == CallsOf(i, "upload_part")
            body == Join([k \in 1..Len(up) |-> up[k].Body])
        IN  /\ \A k \in 1..Len(parts[i]) : parts[i][k].PartNumber = k
            /\ \A k \in 1..Len(up) : up[k].PartNumber = k
            /\ \A k \in 1..Len(parts[i]) : parts[i][k].ETag = up[k].ETag
            /\ \A k \in 1..Len(body) : body[k] = k

\* C4 witness: three parts recorded, a fourth upload_part call about to be made.
C4_Witness ==
    /\ Len(parts[1]) = 3
    /\ part_number[1] = 4
    /\ pc[1] = "upload_part"
    /\ chunk[1] # <<>>

\* C9 (as claimed): a run cancelled after create succeeded has issued an abort
\* call for its uploadId (or has completed the upload).
C9_CancelAborts ==
    \A i \in Invocations :
        (Finished(i) /\ Created(i) /\ Cancelled(i))
            => \/ AbortIssued(i)
               \/ \E k \in 1..Len(calls) :
                    calls[k].inv = i /\ calls[k].op = "complete" /\ calls[k].outcome = "ok"

\* the abort call of invocation i raised
AbortFailed(i) ==
    \E k \in 1..Len(calls) :
        calls[k].inv = i /\ calls[k].op = "abort" /\ calls[k].outcome = "error"

\* C10 (as claimed): when the abort call fails after a part or the completion
\* failed, the run still ends as it does when the abort answers: it returns
\* False and the original error is reported.
C10_AbortFailureKeepsOutcome ==
    \A i \in Invocations :
        (Finished(i) /\ PartOrCompleteFailed(i) /\ AbortFailed(i))
            => /\ result[i] = "False"
               /\ \E k \in 1..Len(printed[i]) :
                    printed[i][k].msg = "exc" /\ printed[i][k].exc = exc[i]

\* C14: of the upload_part calls of a run, all but the last carry a body of at
\* least min_size bytes, however the stream cut its chunks.
C14_PartsMeetMinSize ==
    \A i \in Invocations :
        LET up == CallsOf(i, "upload_part")
        IN  \A k \in 1..(Len(up) - 1) : Len(up[k].Body) >= min_size[i]

\* C14 witness: with min_size 2 a run uploaded a part of 3 bytes, a second part
\* and a last part of 1 byte.
C14_Witness ==
    /\ Finished(1) /\ min_size[1] = 2
    /\ Len(CallsOf(1, "upload_part")) = 3
    /\ Len(CallsOf(1, "upload_part")[1].Body) = 3
    /\ Len(CallsOf(1, "upload_part")[3].Body) = 1

\* the index in calls of the k-th call of invocation i with operation op
CallIndex(i, op, k) ==
    CHOOSE x \in 1..Len(calls) :
        /\ calls[x].inv = i /\ calls[x].op = op
        /\ Cardinality({y \in 1..x : calls[y].inv = i /\ calls[y].op = op}) = k

\* C15: a run issues at most one complete call; when it is issued the input
\* stream is exhausted and all of it was uploaded, every upload_part call of the
\* run was issued before and answered, and the Parts of the call are exactly
\* the (PartNumber, ETag) pairs those calls returned, in ascending PartNumber
\* order.
C15_CompleteAfterAllParts ==
    \A i \in Invocations :
        LET co == CallsOf(i, "complete")
            up == CallsOf(i, "upload_part")
        IN  /\ Len(co) <= 1
            /\ Len(co) = 1 =>
                /\ file_[i] = <<>>
                /\ Join([k \in 1..Len(up) |-> up[k].Body]) = Join(delivered[i])
                /\ \A k \in 1..Len(up) :
                    /\ up[k].outcome = "ok"
                    /\ CallIndex(i, "upload_part", k) < CallIndex(i, "complete", 1)
                /\ co[1].Parts = ReturnedPairs(i)
                /\ \A j, k \in 1..Len(co[1].Parts) :
                    j < k => co[1].Parts[j].PartNumber < co[1].Parts[k].PartNumber

\* C15 witness: a run completed an upload of three parts.
C15_Witness ==
    /\ result[1] = "True"
    /\ Len(CallsOf(1, "complete")) = 1
    /\ Len(CallsOf(1, "complete")[1].Parts) = 3

\* the upload ids create_multipart_upload returned to invocation i
OwnUploadIds(i) ==
    {calls[k].UploadId : k \in {x \in 1..Len(calls) :
        calls[x].inv = i /\ calls[x].op = "create" /\ calls[x].outcome = "ok"}}

\* the ETags upload_part returned to invocation i
OwnETags(i) ==
    {calls[k].ETag : k \in {x \in 1..Len(calls) :
        calls[x].inv = i /\ calls[x].op = "upload_part" /\ calls[x].outcome = "ok"}}

\* C16: with invocations interleaved at their awaits, every upload_part,
\* complete and abort call of an invocation carries the upload id its own
\* create call returned, the parts it records and completes with hold only
\* ETags returned to it, and two invocations share no upload id and no ETag.
C16_InvocationsOwnTheirState ==
    /\ \A k \in 1..Len(calls) :
        calls[k].op \in {"upload_part", "complete", "abort"} =>
            /\ OwnUploadIds(calls[k].inv) = {calls[k].UploadId}
            /\ \A j \in 1..Len(calls[k].Parts) :
                calls[k].Parts[j].ETag \in OwnETags(calls[k].inv)
    /\ \A i \in Invocations :
        \A j \in 1..Len(parts[i]) : parts[i][j].ETag \in OwnETags(i)
    /\ \A i, j \in Invocations :
        i # j => /\ OwnUploadIds(i) \cap OwnUploadIds(j) = {}
                 /\ OwnETags(i) \cap OwnETags(j) = {}

\* C16 witness: both invocations completed an upload of two parts, the
\* upload_part calls of one falling between those of the other.
C16_Witness ==
    /\ \A i \in Invocations :
        result[i] = "True" /\ Len(CallsOf(i, "upload_part")) = 2
    /\ CallIndex(1, "upload_part", 1) < CallIndex(2, "upload_part", 1)
    /\ CallIndex(2, "upload_part", 1) < CallIndex(1, "upload_part", 2)
    /\ CallIndex(1, "complete", 1) < CallIndex(2, "complete", 1)

\* C17: after a create call of an invocation failed, that invocation issues no
\* call at all, and it has ended by raising the create error.
C17_CreateFailureIsFatal ==
    \A j \in 1..Len(calls) :
        (calls[j].op = "create" /\ calls[j].outcome = "error") =>
            /\ \A k \in 1..Len(calls) :
                (j < k /\ calls[k].inv = calls[j].inv)
                    => calls[k].op \notin {"upload_part", "complete", "abort"}
            /\ Finished(calls[j].inv)
            /\ raised[calls[j].inv].exc = "create_error"

\* C17 witness: the create call of a run with input to upload failed.
C17_Witness ==
    /\ Finished(1)
    /\ file_[1] # <<>>
    /\ Len(calls) = 1
    /\ calls[1].op = "create" /\ calls[1].outcome = "error"

\* C18: no PartNumber is the subject of two upload_part calls of a run, and
\* after a failed upload_part call the run issues no call but abort: it is in
\* its except clause or has ended, with the abort call issued unless the task
\* was cancelled while awaiting it.
C18_NoRetry ==
    \A i \in Invocations :
        LET up == CallsOf(i, "upload_part")
        IN  /\ \A j, k \in 1..Len(up) : j # k => up[j].PartNumber # up[k].PartNumber
            /\ \A j \in 1..Len(calls) :
                (calls[j].inv = i /\ calls[j].op = "upload_part"
                                  /\ calls[j].outcome = "error") =>
                    /\ \A k \in (j + 1)..Len(calls) :
                        calls[k].inv = i => calls[k].op = "abort"
                    /\ pc[i] \in {"abort", "done"}
                    /\ (pc[i] = "done" /\ ~Cancelled(i)) => AbortIssued(i)

\* C18 witness: the 2nd upload_part call failed, abort answered and the run
\* returned False.
C18_Witness ==
    /\ result[1] = "False"
    /\ Len(CallsOf(1, "upload_part")) = 2
    /\ CallsOf(1, "upload_part")[2].outcome = "error"
    /\ calls[Len(calls)].op = "abort" /\ calls[Len(calls)].outcome = "ok"


Bodies(i) ==
    [k \in 1..Len(CallsOf(i, "upload_part")) |-> CallsOf(i, "upload_part")[k].Body]

\* C25: in a run where all calls succeeded, the bodies of the parts, joined in
\* PartNumber order, are the bytes of the input stream in order, all of them.
C25_PartsAreTheInput ==
    \A i \in Invocations :
        AllSucceeded(i) =>
            /\ \A k \in 1..Len(Bodies(i)) : CallsOf(i, "upload_part")[k].PartNumber = k
            /\ file_[i] = <<>>
            /\ Join(Bodies(i)) = Join(delivered[i])
            /\ Join(Bodies(i)) = Bytes(Len(Join(delivered[i])))

\* C25 witness: a completed run in which a part was joined from several chunks
\* and another part followed.
C25_Witness ==
    /\ AllSucceeded(1)
    /\ min_size[1] = 2
    /\ Len(delivered[1]) >= 4
    /\ Len(delivered[1][1]) = 1 /\ Len(delivered[1][2]) = 1
    /\ Len(Bodies(1)) = 2

\* C26 (as claimed): a run whose input stream carries at least one byte issues
\* no upload_part call with an empty body.
C26_NoEmptyPart ==
    \A i \in Invocations :
        Len(Join(delivered[i])) + Len(file_[i]) >= 1 =>
            \A k \in 1..Len(Bodies(i)) : Bodies(i)[k] # <<>>

\* the sequences of bs that are not empty, in order
NonEmpty(bs) == SelectSeq(bs, LAMBDA b : b # <<>>)

\* C26 (amended): with min_size >= 1 an empty body is uploaded only as the last
\* part, when the stream has ended and the parts before it, each of at least
\* min_size bytes, hold all its bytes; a completed run ends with a part shorter
\* than min_size, empty or not. With min_size = 0 every part is one chunk as
\* the stream delivered it, or empty.
C26_EmptyPartOnlyAtEnd ==
    \A i \in Invocations :
        /\ min_size[i] >= 1 =>
            /\ \A k \in 1..Len(Bodies(i)) :
                Bodies(i)[k] = <<>> =>
                    /\ k = Len(Bodies(i))
                    /\ file_[i] = <<>>
                    /\ Join(SubSeq(Bodies(i), 1, k - 1)) = Join(delivered[i])
                    /\ \A j \in 1..(k - 1) : Len(Bodies(i)[j]) >= min_size[i]
            /\ AllSucceeded(i) => Len(Bodies(i)[Len(Bodies(i))]) < min_size[i]
        /\ min_size[i] = 0 =>
            /\ Len(NonEmpty(Bodies(i))) <= Len(NonEmpty(delivered[i]))
            /\ NonEmpty(Bodies(i)) =
                    SubSeq(NonEmpty(delivered[i]), 1, Len(NonEmpty(Bodies(i))))

\* C26 witness: 4 bytes delivered in two chunks of min_size = 2 bytes were
\* uploaded as two parts of 2 bytes and a third, empty part.
C26_Witness ==
    /\ AllSucceeded(1)
    /\ min_size[1] = 2
    /\ delivered[1] = <<<<1, 2>>, <<3, 4>>>>
    /\ Len(Bodies(1)) = 3
    /\ Bodies(1)[3] = <<>>

\* the complete call of invocation i answered
CompleteSucceeded(i) ==
    \E k \in 1..Len(calls) :
        calls[k].inv = i /\ calls[k].op = "complete" /\ calls[k].outcome = "ok"

\* C27: a run has returned True exactly when its complete call answered, and
\* then no abort call was issued by it; a run that issued an abort call has
\* not returned True.
C27_CompletedExcludesAborted ==
    \A i \in Invocations :
        /\ result[i] = "True" <=> CompleteSucceeded(i)
        /\ CompleteSucceeded(i) =>
            \A k \in 1..Len(calls) : calls[k].inv = i => calls[k].op # "abort"

\* C27 witness: a run has returned True after two parts with no abort call.
C27_Witness ==
    /\ result[1] = "True"
    /\ Len(parts[1]) = 2
    /\ CompleteSucceeded(1) /\ ~AbortIssued(1)

\* C28 (as claimed): a run in which reading the input raised after create
\* answered (and that was not cancelled) ends with the abort call issued, no
\* complete call, and False returned.
C28_ReadErrorAborts ==
    \A i \in Invocations :
        (Finished(i) /\ exc[i] = "read_error" /\ ~Cancelled(i)) =>
            /\ AbortIssued(i)
            /\ CallsOf(i, "complete") = <<>>
            /\ result[i] = "False"


\* ------------------------------------------------------------------ claims: _sync_get_logs
\* the record a yielded byte line holds
OutRecord(line) ==
    LET text == Decode(line) IN ParseJson(SubSeq(text, 1, Len(text) - 1))[1]

\* the records yielded so far, in order
Emitted == [k \in 1..Len(out) |-> OutRecord(out[k])]

\* the records are in non-decreasing timestamp order
Sorted(rs) == \A j, k \in 1..Len(rs) : j < k => rs[j].timestamp <= rs[k].timestamp

\* the number of times r occurs in rs
Count(r, rs) == Cardinality({k \in 1..Len(rs) : rs[k] = r})

\* the places (WACZ, log entry, line) of the records the log entries hold
InputPlaces ==
    {<<w, e, k>> \in (1..NumWacz) \X (1..MaxLogFiles) \X (1..MaxLines) :
        /\ w <= Len(entry_records)
        /\ e <= Len(entry_records[w])
        /\ k <= Len(entry_records[w][e])}

\* the places of the records the merge is given
MergedPlaces ==
    {<<s, k>> \in (1..NumWacz) \X (1..MaxLines) :
        s <= Len(log_generators) /\ k <= Len(log_generators[s])}

\* C5: when every per-archive record sequence given to the merge is
\* non-decreasing in timestamp, no record is yielded after a record with a
\* larger timestamp.
C5_MergedNonDecreasing ==
    (\A s \in 1..Len(log_generators) : Sorted(log_generators[s])) => Sorted(Emitted)

\* C5 witness: two archives, the first with timestamps 1, 2 and the second
\* with timestamp 1, merged to the end.
C5_Witness ==
    /\ lpc = "exhausted"
    /\ Len(log_generators) = 2
    /\ Len(log_generators[1]) = 2 /\ Len(log_generators[2]) = 1
    /\ log_generators[1][1].timestamp = 1 /\ log_generators[1][2].timestamp = 2
    /\ log_generators[2][1].timestamp = 1
    /\ Len(out) = 3

\* C6 (as claimed): when the lines of every single log entry are in
\* non-decreasing timestamp order, the yielded records are too, also when an
\* archive holds several log entries.
C6_SortedWithinEntries ==
    (\A p \in InputPlaces : Sorted(entry_records[p[1]][p[2]])) => Sorted(Emitted)

\* C7 (as claimed): once the stream has ended, every record occurs among the
\* yielded records as often as it occurs among the records of the log entries
\* that pass the filters.
C7_ExactMultiset ==
    lpc = "exhausted" =>
        \A r \in {entry_records[p[1]][p[2]][p[3]] : p \in InputPlaces}
                 \cup {Emitted[k] : k \in 1..Len(out)} :
            Count(r, Emitted) =
                IF Passes(r)
                THEN Cardinality({p \in InputPlaces : entry_records[p[1]][p[2]][p[3]] = r})
                ELSE 0

\* C8: every yielded record has its logLevel in a non-empty log_levels and its
\* context in a non-empty contexts, and once the stream has ended the records
\* yielded are as many as the merged records that satisfy the non-empty
\* filters: an empty filter set removes none.
C8_FiltersApplied ==
    /\ \A k \in 1..Len(out) :
        /\ log_levels # {} => Emitted[k].logLevel \in log_levels
        /\ contexts # {} => Emitted[k].context \in contexts
    /\ lpc = "exhausted" =>
        Len(out) = Cardinality({p \in MergedPlaces :
                        /\ log_levels = {} \/ log_generators[p[1]][p[2]].logLevel \in log_levels
                        /\ contexts = {} \/ log_generators[p[1]][p[2]].context \in contexts})

\* C8 witness: the stream has ended with a context filter and no level filter,
\* a record was yielded and a record was skipped.
C8_Witness ==
    /\ lpc = "exhausted"
    /\ log_levels = {} /\ contexts # {}
    /\ Len(out) >= 1
    /\ Len(out) < Cardinality(MergedPlaces)

\* the number of records the merge has yielded from source s: those it pulled,
\* less the one that waits in the heap
MergeYielded(s) ==
    IF s \notin DOMAIN heap_iter.pos \/ heap_iter.mode = "new" THEN 0
    ELSE IF s # heap_iter.cur /\ \E x \in heap_iter.h : x.order = s - 1
         THEN heap_iter.pos[s] - 1
         ELSE heap_iter.pos[s]

\* C19 (as claimed): while the sources are read and while the merged stream is
\* consumed, no source holds more than one parsed record that was not yielded.
C19_OnePendingPerSource ==
    /\ lpc \in {"open_zip", "open_entry", "read"} =>
        /\ Len(wacz_log_streams) <= 1
        /\ \A s \in 1..Len(log_generators) : Len(log_generators[s]) <= 1
    /\ lpc = "returned" =>
        \A s \in 1..Len(log_generators) :
            Len(log_generators[s]) - MergeYielded(s) <= 1

\* C20 (as claimed): when the lines of every log entry are in non-decreasing
\* timestamp order, a record is yielded only after every record with the same
\* timestamp of an archive earlier in wacz_files (the records of one archive
\* are yielded in their order in any case).
C20_StableMerge ==
    (\A p \in InputPlaces : Sorted(entry_records[p[1]][p[2]])) =>
        \A s, t \in 1..Len(log_generators) :
            \A j \in 1..Len(log_generators[s]), k \in 1..Len(log_generators[t]) :
                (/\ s < t
                 /\ log_generators[s][j].timestamp = log_generators[t][k].timestamp
                 /\ k <= MergeYielded(t))
                    => j <= MergeYielded(s)

\* the timestamp, level and context of the records rs, in order
Metas(rs) ==
    [k \in 1..Len(rs) |->
        [timestamp |-> rs[k].timestamp, logLevel |-> rs[k].logLevel,
         context |-> rs[k].context]]

\* C21 (as claimed): whatever chunks the bytes of the log entries arrive in,
\* the records parsed from the entries of an archive read through are those of
\* their whole bytes decoded, split on newlines and parsed line by line.
C21_ChunkingIndependent ==
    lpc = "open_entry" => wacz_log_streams = Join(entry_records[wacz])

\* C22: a line that is not JSON is dropped and nothing else is: the records
\* parsed from the entries of an archive, and the records every archive gives
\* to the merge, are those of the well-formed lines of its entries, one per
\* such line and in their order (compared by timestamp, level and context).
C22_MalformedLinesDropped ==
    /\ lpc = "open_entry" =>
        Metas(wacz_log_streams) = Metas(Join(entry_records[wacz]))
    /\ lpc \in {"returned", "exhausted"} =>
        /\ Len(log_generators) = NumWacz
        /\ \A s \in 1..NumWacz :
            Metas(log_generators[s]) = Metas(Join(entry_records[s]))

\* C22 witness: the only log entry of the archives held three lines, two
\* records and a line that is no JSON; the stream ended with both records
\* yielded.
C22_Witness ==
    /\ lpc = "exhausted"
    /\ malformed = 1 /\ lines_used = 3
    /\ Len(entry_records[1]) = 1 /\ Len(entry_records[2]) = 0
    /\ Len(entry_records[1][1]) = 2
    /\ Len(out) = 2

\* C23: a run in which an archive or a log entry could not be opened has
\* yielded no record, and records are yielded only after every archive of
\* wacz_files was opened and read.
C23_OpenFailureIsFatal ==
    /\ lpc = "failed" => out = <<>>
    /\ out # <<>> => Len(entry_records) = NumWacz /\ Len(log_generators) = NumWacz

\* C23 witness: the first archive was read with a record in it, then the run
\* failed on the second archive.
C23_Witness ==
    /\ lpc = "failed"
    /\ Len(entry_records) = 2
    /\ entry_records[1] # <<>> /\ entry_records[1][1] # <<>>
    /\ out = <<>>

\* ------------------------------------------------------------------ claims: _sync_dl
\* the zip bytes the consumer of the stream has been given
ZipDelivered == Join(zout)

\* the zip bytes produced so far, yielded or still held back
ZipStream == ZipDelivered \o pending

\* the bytes of kind k among bs, in order
OfKind(bs, k) == SelectSeq(bs, LAMBDA b : b.k = k)

\* the names the bytes bs carry, in order
NamesOf(bs) == [j \in 1..Len(bs) |-> bs[j].name]

\* a is a prefix of b
IsPrefix(a, b) == Len(a) <= Len(b) /\ a = SubSeq(b, 1, Len(a))

\* the member names of the archive of all_files: the files in the order of the
\* list, then the manifest
ExpectedMembers ==
    [k \in 1..Len(all_files) |-> all_files[k].name] \o <<"datapackage.json">>

\* the index in bs of the j-th byte of kind k
RECURSIVE KindPos(_, _, _)
KindPos(bs, k, j) ==
    LET first == CHOOSE x \in 1..Len(bs) :
                    bs[x].k = k /\ \A y \in 1..(x - 1) : bs[y].k # k
    IN  IF j = 1 THEN first
        ELSE first + KindPos(SubSeq(bs, first + 1, Len(bs)), k, j - 1)

\* the number of bytes the finished archive holds for its m-th member, between
\* the local header of the member and the next header
RealizedSize(m) ==
    LET members == Len(OfKind(ZipDelivered, "lfh"))
        start == KindPos(ZipDelivered, "lfh", m)
        end == IF m < members THEN KindPos(ZipDelivered, "lfh", m + 1)
               ELSE IF OfKind(ZipDelivered, "cdh") # <<>>
                    THEN KindPos(ZipDelivered, "cdh", 1)
                    ELSE KindPos(ZipDelivered, "eocd", 1)
    IN  end - start - 1

\* C11: the members are written in the order of all_files with the manifest
\* after them: at every moment the local headers produced are a prefix of the
\* expected member list and every data byte follows the header of its own
\* member; the finished archive holds exactly N + 1 members, the manifest last
\* and once, and its central directory lists the same N + 1 members.
C11_MembersThenManifest ==
    /\ IsPrefix(NamesOf(OfKind(ZipStream, "lfh")), ExpectedMembers)
    /\ \A j \in 1..Len(ZipStream) :
        ZipStream[j].k \in {"data", "json"} =>
            LET before == OfKind(SubSeq(ZipStream, 1, j), "lfh")
            IN  /\ before # <<>>
                /\ before[Len(before)].name = ZipStream[j].name
                /\ ZipStream[j].k = "json" => Len(before) = Len(all_files) + 1
    /\ zpc = "done" =>
        /\ NamesOf(OfKind(ZipDelivered, "lfh")) = ExpectedMembers
        /\ Len(OfKind(ZipDelivered, "lfh")) = Len(all_files) + 1
        /\ Len(OfKind(ZipDelivered, "json")) = 1
        /\ NamesOf(OfKind(ZipDelivered, "cdh")) = ExpectedMembers
        /\ OfKind(ZipDelivered, "eocd") = <<ZByte("eocd", "", Len(all_files) + 1, <<>>)>>
        /\ ZipDelivered[Len(ZipDelivered)].k = "eocd"

\* C11 witness: the archive of two different non-empty files is finished.
C11_Witness ==
    /\ zpc = "done"
    /\ Len(all_files) = 2
    /\ all_files[1].name = "b.wacz" /\ all_files[2].name = "a.wacz"
    /\ stored["a.wacz"] > 0 /\ stored["b.wacz"] > 0

\* C12 (as claimed): the manifest of the finished archive lists the members of
\* all_files once each, in order, and the size it gives for each is the number
\* of bytes the archive holds for that member, whatever the record declared.
C12_ManifestRealizedSizes ==
    zpc = "done" =>
        LET doc == OfKind(ZipDelivered, "json")[1].doc
        IN  /\ Len(doc) = Len(all_files)
            /\ \A m \in 1..Len(doc) :
                /\ doc[m].name = all_files[m].name
                /\ doc[m].size = RealizedSize(m)

\* C13 (as claimed): when a remote read has failed while the archive was
\* produced, the consumer has been given no byte of it.
C13_NoBytesBeforeFailure ==
    zpc = "failed" => zout = <<>>

\* the number of zip bytes the members 1..k take once written: a local header
\* and the data of each
RECURSIVE WrittenThrough(_)
WrittenThrough(k) ==
    IF k = 0 THEN 0
    ELSE WrittenThrough(k - 1) + 1 + central_directory[k].size

\* the stored files whose member is written entirely
FilesWritten ==
    IF Len(central_directory) < Len(all_files) THEN Len(central_directory)
    ELSE Len(all_files)

====
